---- MODULE Spec2Model ----
(***************************************************************************)
(* A model of pmd-usb-logger: the handshake of pmd-usb-logger.py (speed    *)
(* probing, identification, calibration read, start of the stream), the    *)
(* receive loops of pmd-usb-logger.py and main.py, and the per-frame       *)
(* decode.                                                                 *)
(*                                                                         *)
(* Conventions.  A byte is a number in 0..255 and a bytes object is a      *)
(* sequence of bytes.  Everything is evaluated as Python evaluates it,     *)
(* exceptions included.                                                    *)
(*                                                                         *)
(* pmd-usb-logger.py as written does not compile: read_data() (lines       *)
(* 177-184) ends in `for ()`, so Python raises SyntaxError before any       *)
(* statement of the file runs, and no port is opened.  That run is the     *)
(* initial state InitAsWritten, which no action leaves.  Every other       *)
(* behaviour of the script is of the file with lines 177-184 removed.      *)
(*                                                                         *)
(* With those lines removed the file does `import pmd` and then uses the   *)
(* names of that module unqualified (PMD_USB_DISABLE, SensorStruct, ...;   *)
(* only pmd.PMD_USB_WRITE_CONT_TX of line 70 is qualified), reads VERBOSE, *)
(* which only enable_verbosity() binds and nothing calls, reads            *)
(* channel_settings, which nothing binds, and uses PMD_USB_ConfigStruct    *)
(* and PMD_USB_ConfigStruct_V5, which no file of src/ defines.  It         *)
(* therefore raises NameError at the first such read.  Which of these      *)
(* names are bound is the variable `globals`: the empty set is the file    *)
(* with nothing bound from outside, and the other values are the file run  *)
(* with names bound from outside (a star import of pmd, a call of          *)
(* enable_verbosity, aliases for the config structures).  Where the two    *)
(* aliases are bound they stand for pmd.ConfigStruct and                   *)
(* pmd.ConfigStructV5, the only config structures of src/.                 *)
(***************************************************************************)
EXTENDS Integers, Sequences, FiniteSets, TLC

VARIABLES
    pc,               \* where the running script is
    fn,               \* which receive function runs: "logger", "rx", "single"
    VERBOSE,          \* the value of the global VERBOSE, where it is bound
    globals,          \* which of the names in UnboundNames are bound
    log_level,        \* the level configure_logging() has set
    loop_i,           \* position of the for loop in the probing order (1-based)
    baudrate,         \* pmd_settings["baudrate"]
    device_response,  \* __main__'s device_response
    attempts,         \* the speeds tried so far, each with its outcome
    last,             \* what check_connection read in the latest attempt
    wire,             \* the I/O done on the serial port, in order
    reports,          \* what was printed, in order
    id_struct,        \* the decoded DeviceIdStruct, or Unset
    config_struct,    \* the name of the config structure decoded, or "none"
    cal_data,         \* the 8 calibration offsets
    exc,              \* the exception that ended the script, or "none"
    input_buffer,     \* the receive loop's accumulation buffer
    chunk_num_bytes,  \* the frame length the receive loop uses (0: not bound)
    rx_buffer,        \* the frame extracted last
    frames,           \* every frame extracted, in order
    samples,          \* every decoded sample, in order
    delivered,        \* every byte ser.read_all() returned, in order
    last_chunk,       \* the number of bytes the latest ser.read_all() returned
    count,            \* continuous_data_rx_single's count of frames
    stream,           \* the bytes the device sends, a function of the position
    channel_settings, \* the global read by the logger's decode
    decoded,          \* result of the per-frame decode applied on its own
    cal_read,         \* what read_calibration read from the port
    cancel            \* the external cancellation signal

vars == << pc, fn, VERBOSE, globals, log_level, loop_i, baudrate,
           device_response, attempts, last, wire, reports, id_struct, config_struct, cal_data, exc,
           input_buffer, chunk_num_bytes, rx_buffer, frames, samples,
           delivered, last_chunk, count, stream, channel_settings, decoded,
           cal_read, cancel >>

sessionVars == << loop_i, baudrate, device_response, attempts, last, reports,
                  id_struct, config_struct >>

rxVars == << input_buffer, chunk_num_bytes, rx_buffer, frames, samples,
             delivered, last_chunk, count >>

(***************************************************************************)
(* Python values and operations                                            *)
(***************************************************************************)

Min(a, b) == IF a <= b THEN a ELSE b

Max(a, b) == IF a >= b THEN a ELSE b

Unset == [bound |-> FALSE]

\* The outcome of evaluating an expression: a value, or a raised exception.
Ok(v) == [exc |-> "none", val |-> v]

Raise(e) == [exc |-> e, val |-> 0]

\* s[a:b] of Python for 0 <= a <= b: both ends are clamped to len(s).
PySlice(s, a, b) == SubSeq(s, Min(a, Len(s)) + 1, Min(b, Len(s)))

RECURSIVE SeqSum(_)
SeqSum(s) == IF s = << >> THEN 0 ELSE Head(s) + SeqSum(Tail(s))

\* sum(x): x has to be iterable; an int is not.
builtin_sum(x) == IF x \in Int THEN Raise("TypeError") ELSE Ok(SeqSum(x))

RECURSIVE Insert(_, _)
Insert(x, s) ==
    IF s = << >> THEN << x >>
    ELSE IF x <= Head(s) THEN << x >> \o s
    ELSE << Head(s) >> \o Insert(x, Tail(s))

RECURSIVE sorted(_)
sorted(s) == IF s = << >> THEN << >> ELSE Insert(Head(s), sorted(Tail(s)))

reversed(s) == [i \in 1..Len(s) |-> s[Len(s) + 1 - i]]

\* c_int8 read from one byte of a buffer.
c_int8(b) == IF b >= 128 THEN b - 256 ELSE b

\* the byte a signed 8-bit value is stored as
AsByte(v) == v % 256

(***************************************************************************)
(* src/pmd/__init__.py                                                     *)
(***************************************************************************)

PMD_USB_WELCOME == << 0 >>
PMD_USB_READ_ID == << 1 >>
PMD_USB_READ_SENSORS == << 2 >>
PMD_USB_READ_CONFIG == << 4 >>
PMD_USB_WRITE_CONT_TX == << 7 >>
PMD_USB_WRITE_CONFIG_UART == << 8 >>
PMD_USB_ENABLE == << 1 >>
PMD_USB_DISABLE == << 0 >>
PMD_USB_MASK_NONE == << 0 >>
PMD_USB_MASK_ALL == << 255 >>
PMD_USB_TIMESTAMP_NONE == << 0 >>
PMD_USB_TIMESTAMP_FULL == << 4 >>

\* b"ElmorLabs PMD-USB"
PMD_USB_RESPONSE ==
    << 69, 108, 109, 111, 114, 76, 97, 98, 115, 32, 80, 77, 68, 45, 85, 83, 66 >>

PMD_USB_SENSOR_NUM == 4

PMD_USB_SENSOR_NAME_LEN == 6

\* A ctypes field: `length` elements of `size` bytes, each aligned to `align`.
Field(name, size, length, align) ==
    [name |-> name, size |-> size, count |-> length, align |-> align]

AlignUp(n, a) == ((n + a - 1) \div a) * a

\* ctypes layout under _pack_: a field is aligned to min(its alignment, pack).
RECURSIVE LayoutEnd(_, _, _)
FieldOffset(fields, pack, k) ==
    AlignUp(LayoutEnd(fields, pack, k - 1), Min(fields[k].align, pack))

LayoutEnd(fields, pack, k) ==
    IF k = 0 THEN 0
    ELSE FieldOffset(fields, pack, k) + fields[k].size * fields[k].count

RECURSIVE MaxAlign(_, _)
MaxAlign(fields, k) ==
    IF k = 0 THEN 1 ELSE Max(fields[k].align, MaxAlign(fields, k - 1))

StructSize(fields, pack) ==
    AlignUp(LayoutEnd(fields, pack, Len(fields)),
            Min(MaxAlign(fields, Len(fields)), pack))

OffsetOf(fields, pack, name) ==
    FieldOffset(fields, pack, CHOOSE k \in 1..Len(fields) : fields[k].name = name)

DeviceIdStruct ==
    [pack |-> 1,
     fields |-> << Field("Vendor", 1, 1, 1), Field("Product", 1, 1, 1),
                   Field("Firmware", 1, 1, 1) >>]

ConfigStruct ==
    [pack |-> 2,
     fields |-> << Field("Version", 1, 1, 1), Field("Crc", 2, 1, 2),
                   Field("AdcOffset", 1, 8, 1), Field("OledDisable", 1, 1, 1),
                   Field("TimeoutCount", 2, 1, 2), Field("TimeoutAction", 1, 1, 1),
                   Field("OledSpeed", 1, 1, 1), Field("RestartAdcFlag", 1, 1, 1),
                   Field("CalFlag", 1, 1, 1), Field("UpdateConfigFlag", 1, 1, 1),
                   Field("OledRotation", 1, 1, 1), Field("Averaging", 1, 1, 1),
                   Field("rsvd", 1, 3, 1) >>]

ConfigStructV5 ==
    [pack |-> 2,
     fields |-> << Field("Version", 1, 1, 1), Field("Crc", 2, 1, 2),
                   Field("AdcOffset", 1, 8, 1), Field("OledDisable", 1, 1, 1),
                   Field("TimeoutCount", 2, 1, 2), Field("TimeoutAction", 1, 1, 1),
                   Field("OledSpeed", 1, 1, 1), Field("RestartAdcFlag", 1, 1, 1),
                   Field("CalFlag", 1, 1, 1), Field("UpdateConfigFlag", 1, 1, 1),
                   Field("OledRotation", 1, 1, 1), Field("Averaging", 1, 1, 1),
                   Field("AdcGainOffset", 1, 8, 1), Field("rsvd", 1, 3, 1) >>]

ReadingStruct ==
    [pack |-> 2,
     fields |-> << Field("Name", 1, PMD_USB_SENSOR_NAME_LEN, 1),
                   Field("Voltage", 2, 1, 2), Field("Current", 2, 1, 2),
                   Field("Power", 2, 1, 2) >>]

sizeof(struct) == StructSize(struct.fields, struct.pack)

SensorStruct ==
    [pack |-> 2,
     fields |-> << Field("Sensor", sizeof(ReadingStruct), PMD_USB_SENSOR_NUM, 2) >>]

\* Structure.from_buffer_copy(buffer): ValueError when the buffer is too small.
from_buffer_copy(struct, buffer) ==
    IF Len(buffer) < sizeof(struct) THEN Raise("ValueError") ELSE Ok(buffer)

\* the c_int8 array field `name` of a structure decoded from `buffer`
Int8Array(struct, buffer, name, n) ==
    [i \in 1..n |->
        c_int8(buffer[OffsetOf(struct.fields, struct.pack, name) + i])]

\* the c_uint8 field `name`
UInt8Field(struct, buffer, name) ==
    buffer[OffsetOf(struct.fields, struct.pack, name) + 1]

(***************************************************************************)
(* The serial port                                                         *)
(***************************************************************************)

\* the port opened at the default speed, whatever pmd_settings holds
EvOpenDefault(b) == [op |-> "open", baud |-> 115200, data |-> << >>, n |-> 0]

\* serial.Serial(**pmd_settings), the baudrate of pmd_settings being b
EvOpen(b) == [op |-> "open", baud |-> b, data |-> << >>, n |-> 0]
EvWrite(d) == [op |-> "write", baud |-> 0, data |-> d, n |-> 0]
EvFlush == [op |-> "flush", baud |-> 0, data |-> << >>, n |-> 0]
EvSleep == [op |-> "sleep", baud |-> 0, data |-> << >>, n |-> 0]
EvReadAll == [op |-> "read_all", baud |-> 0, data |-> << >>, n |-> 0]
\* a read of up to n bytes (what it returned is kept in `last`, not here)
EvRead(n) == [op |-> "read", baud |-> 0, data |-> << >>, n |-> n]

\* ser.read(n) with a timeout: at most n of the bytes the device sent.
SerialRead(avail, n) == PySlice(avail, 0, n)

Zeros(n) == [i \in 1..n |-> 0]

(***************************************************************************)
(* pmd-usb-logger.py: settings                                             *)
(***************************************************************************)

supported_baudrates == << 115200, 230400, 460800, 921600, 1500000, 2000000 >>

\* cal_data = [0] * 8
InitialCalData == Zeros(8)


(***************************************************************************)
(* What the device may answer                                              *)
(***************************************************************************)

\* Answers to the welcome query: the greeting, the greeting followed by a
\* terminator (18 bytes) or by more, nothing (a timeout), a part of the
\* greeting, and a corrupted greeting (the wrong speed).
WelcomeAnswers ==
    { PMD_USB_RESPONSE,
      PMD_USB_RESPONSE \o << 0 >>,
      PMD_USB_RESPONSE \o << 13, 10, 0 >>,
      << >>,
      SubSeq(PMD_USB_RESPONSE, 1, 9),
      [PMD_USB_RESPONSE EXCEPT ![1] = 101] }

\* Answers to the read-sensors query, by the number of bytes sent.
SensorAnswerLens == { 0, 47, 48, 100 }

SensorAnswers == { Zeros(n) : n \in SensorAnswerLens }

\* Firmware versions a device may report.
Firmwares == { 4, 5, 6, 99 }

IdAnswers == { << >>, << 238, 10 >> } \cup { << 238, 10, fw >> : fw \in Firmwares }

\* Calibration offsets a device may hold (signed 8-bit).
DeviceOffsets ==
    { << 1, 2, 3, 4, 5, 6, 7, 8 >>, << -1, -128, 127, 0, -2, 5, -7, 100 >> }

\* The config bytes a device sends: n bytes, the 8 offsets at bytes 4..11
\* (both layouts of src/pmd/__init__.py keep AdcOffset there), other bytes
\* a filler that depends on the position.
DeviceConfig(n, off) ==
    [k \in 1..n |-> IF k - 1 >= 4 /\ k - 1 <= 11 THEN AsByte(off[k - 4])
                    ELSE (200 + k) % 256]

ConfigAnswerLens == { 0, 26, 34 }

ConfigAnswers ==
    { DeviceConfig(n, off) : n \in ConfigAnswerLens, off \in DeviceOffsets }

(***************************************************************************)
(* pmd-usb-logger.py: the handshake                                        *)
(***************************************************************************)

\* The global names pmd-usb-logger.py reads and does not bind itself:
\* "pmd.*" stands for the names of module pmd used unqualified.
UnboundNames ==
    { "VERBOSE", "pmd.*", "PMD_USB_ConfigStruct", "PMD_USB_ConfigStruct_V5",
      "channel_settings" }

\* def enable_verbosity(): global VERBOSE; VERBOSE = True.  Nothing calls it.
enable_verbosity(g) == [globals |-> g \cup { "VERBOSE" }, VERBOSE |-> TRUE]

\* configure_logging(args): the level set from --quiet and the count of -v
configure_logging(quiet, verbose) ==
    IF quiet THEN "ERROR"
    ELSE IF verbose = 1 THEN "INFO"
    ELSE IF verbose > 1 THEN "DEBUG"
    ELSE "WARNING"

\* whether logging.info(...) writes its line at this level
InfoLogged(level) == level \in { "DEBUG", "INFO" }

\* a report that does not name the speed
RepNoSpeed(kind, b) == [kind |-> kind, baud |-> 0, val |-> << >>]

\* print(f"... {baudrate} ..."): a line that names a speed
Rep(kind, b) == [kind |-> kind, baud |-> b, val |-> << >>]

\* print(...) of a line that names no speed, with the values it shows
Said(kind, val) == [kind |-> kind, baud |-> 0, val |-> val]

\* the speeds from lowest to highest
ProbeOrderAscending == sorted(supported_baudrates)

\* the speeds from highest to lowest, gone through a second time
ProbeOrderTwice ==
    reversed(sorted(supported_baudrates)) \o reversed(sorted(supported_baudrates))

\* for baudrate in reversed(sorted(supported_baudrates))
ProbeOrder == reversed(sorted(supported_baudrates))

\* the port opened and its buffer cleared, no stop command written
prime_connection_no_stop(b, g, verbose) ==
    [exc |-> "none", io |-> << EvOpen(b), EvSleep, EvReadAll >>,
     printed |-> << >>]

\* prime_connection() at speed b, the names g being bound and VERBOSE having
\* the value verbose: the I/O it does, what it prints, how it ends.
prime_connection(b, g, verbose) ==
    LET printed == IF verbose THEN << Said("stopping", << >>) >> ELSE << >>
    IN  IF "VERBOSE" \notin g
        THEN [exc |-> "NameError", io |-> << EvOpen(b) >>, printed |-> << >>]
        ELSE IF "pmd.*" \notin g
        THEN [exc |-> "NameError",
              io |-> << EvOpen(b), EvWrite(PMD_USB_WRITE_CONT_TX) >>,
              printed |-> printed]
        ELSE [exc |-> "none",
              io |-> << EvOpen(b),
                        EvWrite(PMD_USB_WRITE_CONT_TX), EvWrite(PMD_USB_DISABLE),
                        EvWrite(PMD_USB_TIMESTAMP_NONE),
                        EvWrite(PMD_USB_MASK_NONE),
                        EvFlush, EvSleep, EvReadAll >>,
              printed |-> printed]

\* only as many bytes as the greeting has are compared
WelcomeMatchesPrefix(read_bytes) ==
    PySlice(read_bytes, 0, Len(PMD_USB_RESPONSE)) = PMD_USB_RESPONSE

\* read_bytes != PMD_USB_RESPONSE
WelcomeMatches(read_bytes) == read_bytes = PMD_USB_RESPONSE

\* a sensor answer shorter than the structure accepted
SensorMatchesAtMost(read_bytes) == Len(read_bytes) <= sizeof(SensorStruct)

\* len(read_bytes) != sizeof(SensorStruct)
SensorMatches(read_bytes) == Len(read_bytes) = sizeof(SensorStruct)

\* check_connection() at speed b, the names g being bound, the device
\* answering the welcome query with welcome_avail and the read-sensors query
\* with sensor_avail.
check_connection(b, g, welcome_avail, sensor_avail) ==
    LET welcome == SerialRead(welcome_avail, 18)
        sensors == SerialRead(sensor_avail, 48)
        io1 == << EvOpen(b), EvReadAll, EvWrite(PMD_USB_WELCOME), EvFlush,
                  EvRead(18) >>
        io2 == << EvWrite(PMD_USB_READ_SENSORS), EvFlush, EvRead(48) >>
    IN  IF "pmd.*" \notin g
        THEN [exc |-> "NameError", ok |-> FALSE,
              io |-> << EvOpen(b), EvReadAll >>, welcome |-> << >>,
              asked_sensors |-> FALSE, sensors |-> << >>]
        ELSE IF ~WelcomeMatches(welcome)
        THEN [exc |-> "none", ok |-> FALSE, io |-> io1, welcome |-> welcome,
              asked_sensors |-> FALSE, sensors |-> << >>]
        ELSE [exc |-> "none", ok |-> SensorMatches(sensors), io |-> io1 \o io2,
              welcome |-> welcome, asked_sensors |-> TRUE, sensors |-> sensors]

\* read_sensors() at speed b, the device answering with sensor_avail.  Nothing
\* calls it.
read_sensors(b, g, sensor_avail) ==
    LET buffer == SerialRead(sensor_avail, sizeof(SensorStruct))
    IN  IF "pmd.*" \notin g
        THEN [exc |-> "NameError", io |-> << EvOpen(b), EvReadAll >>,
              buffer |-> << >>]
        ELSE [exc |-> from_buffer_copy(SensorStruct, buffer).exc,
              io |-> << EvOpen(b), EvReadAll, EvWrite(PMD_USB_READ_SENSORS),
                        EvFlush, EvRead(sizeof(SensorStruct)) >>,
              buffer |-> buffer]

\* the extended layout from firmware 5 on
SelectConfigFrom5(firmware) ==
    IF firmware < 5 THEN "ConfigStruct" ELSE "ConfigStructV5"

\* the legacy layout whatever the identity says
SelectConfigLegacy(firmware) == "ConfigStruct"

\* if id_struct.Firmware < 6: ConfigStruct, else ConfigStructV5
SelectConfig(firmware) == IF firmware < 6 THEN "ConfigStruct" ELSE "ConfigStructV5"

StructOf(name) == IF name = "ConfigStruct" THEN ConfigStruct ELSE ConfigStructV5

\* cal_data[i] = config_struct.AdcOffset[i] for i in range(0, 8)
OffsetsOf(name, buffer) == Int8Array(StructOf(name), buffer, "AdcOffset", 8)

\* the check of device_response left out
NoDeviceIgnored(dr) == FALSE

\* if not device_response
NoDevice(dr) == ~dr

\* The name pmd-usb-logger.py uses for a config structure of module pmd.
AliasOf(name) ==
    IF name = "ConfigStruct" THEN "PMD_USB_ConfigStruct"
    ELSE "PMD_USB_ConfigStruct_V5"

\* read_calibration() at speed b with calibration data cal, the names g being
\* bound and VERBOSE having the value verbose, the device answering read-id
\* with id_avail and read-config with cfg_avail.
read_calibration(b, g, verbose, cal, id_avail, cfg_avail) ==
    LET id_buffer == SerialRead(id_avail, sizeof(DeviceIdStruct))
        id == from_buffer_copy(DeviceIdStruct, id_buffer)
        io1 == << EvOpen(b), EvWrite(PMD_USB_READ_ID), EvFlush,
                  EvRead(sizeof(DeviceIdStruct)) >>
        io2 == << EvWrite(PMD_USB_READ_CONFIG), EvFlush >>
        none == [exc |-> "none", io |-> << >>, id_struct |-> Unset,
                 config_struct |-> "none", cal_data |-> cal,
                 id_buffer |-> << >>, asked_config |-> FALSE, size |-> 0,
                 buffer |-> << >>, printed |-> << >>]
    IN  IF "pmd.*" \notin g
        THEN [none EXCEPT !.exc = "NameError", !.io = << EvOpen(b) >>]
        ELSE IF id.exc # "none"
        THEN [none EXCEPT !.exc = id.exc, !.io = io1, !.id_buffer = id_buffer]
        ELSE
          LET firmware == UInt8Field(DeviceIdStruct, id_buffer, "Firmware")
              idrec == [bound |-> TRUE, Firmware |-> firmware]
              name == SelectConfig(firmware)
              size == sizeof(StructOf(name))
              buffer == SerialRead(cfg_avail, size)
              cfg == from_buffer_copy(StructOf(name), buffer)
              asked == [none EXCEPT !.io = io1 \o io2, !.id_struct = idrec,
                                    !.id_buffer = id_buffer]
              got == [asked EXCEPT !.io = io1 \o io2 \o << EvRead(size) >>,
                                   !.asked_config = TRUE, !.size = size,
                                   !.buffer = buffer]
              done == [got EXCEPT !.config_struct = name,
                                  !.cal_data = OffsetsOf(name, buffer)]
          IN  IF AliasOf(name) \notin g
              THEN [asked EXCEPT !.exc = "NameError"]
              ELSE IF cfg.exc # "none"
              THEN [got EXCEPT !.exc = cfg.exc]
              ELSE IF "VERBOSE" \notin g
              THEN [done EXCEPT !.exc = "NameError"]
              ELSE IF verbose
              THEN [done EXCEPT !.printed =
                        << Said("firmware", << firmware >>),
                           Said("calibration", OffsetsOf(name, buffer)) >>]
              ELSE done

\* int.to_bytes(value, length=4, byteorder="little")
as_bytes(value) == [k \in 1..4 |-> (value \div (256 ^ (k - 1))) % 256]

\* set_baudrate(b), the port being set to speed cur.  Nothing calls it.
set_baudrate(b, cur, g, verbose) ==
    LET io == << EvOpen(cur), EvWrite(PMD_USB_WRITE_CONFIG_UART),
                 EvWrite(as_bytes(b)), EvWrite(as_bytes(2)),
                 EvWrite(as_bytes(0)), EvWrite(as_bytes(0)), EvFlush,
                 EvSleep >>
    IN  IF ~(\E k \in 1..Len(supported_baudrates) : supported_baudrates[k] = b)
        THEN [exc |-> "AssertionError", io |-> << >>, baudrate |-> cur,
              printed |-> << >>]
        ELSE IF "pmd.*" \notin g
        THEN [exc |-> "NameError", io |-> << EvOpen(cur) >>, baudrate |-> cur,
              printed |-> << >>]
        ELSE IF "VERBOSE" \notin g
        THEN [exc |-> "NameError", io |-> io, baudrate |-> b, printed |-> << >>]
        ELSE [exc |-> "none", io |-> io, baudrate |-> b,
              printed |-> IF verbose THEN << Rep("set", b) >> ELSE << >>]

\* The for statement takes the next speed, sets it and primes the connection.
ForIter ==
    /\ pc = "for"
    /\ loop_i <= Len(ProbeOrder)
    /\ baudrate' = ProbeOrder[loop_i]
    /\ LET r == prime_connection(ProbeOrder[loop_i], globals, VERBOSE)
       IN  /\ wire' = wire \o r.io
           /\ reports' = reports \o r.printed
           /\ exc' = r.exc
           /\ pc' = IF r.exc = "none" THEN "check" ELSE "exit"
    /\ UNCHANGED << fn, VERBOSE, globals, log_level, cancel, cal_read, loop_i,
                    device_response, attempts, last, id_struct, config_struct,
                    cal_data, channel_settings, decoded, stream >>
    /\ UNCHANGED rxVars

\* The for statement finds its sequence exhausted.
ForExhausted ==
    /\ pc = "for"
    /\ loop_i > Len(ProbeOrder)
    /\ pc' = "after_for"
    /\ UNCHANGED << fn, VERBOSE, globals, log_level, cancel, cal_read, wire, cal_data, exc,
                    channel_settings, decoded, stream >>
    /\ UNCHANGED sessionVars
    /\ UNCHANGED rxVars

\* if check_connection(): logging.info(...) ... break, else: print(...)
CheckConnection(welcome_avail, sensor_avail) ==
    /\ pc = "check"
    /\ LET r == check_connection(baudrate, globals, welcome_avail, sensor_avail)
       IN  /\ wire' = wire \o r.io
           /\ exc' = r.exc
           /\ IF r.exc # "none"
              THEN /\ pc' = "exit"
                   /\ UNCHANGED << last, attempts, device_response, loop_i,
                                   reports >>
              ELSE /\ last' = [valid |-> TRUE, baud |-> baudrate, ok |-> r.ok,
                               welcome |-> r.welcome,
                               asked_sensors |-> r.asked_sensors,
                               sensors |-> r.sensors]
                   /\ attempts' = Append(attempts,
                                         [baud |-> baudrate, ok |-> r.ok])
                   /\ IF r.ok
                      THEN /\ reports' =
                                 IF InfoLogged(log_level)
                                 THEN Append(reports, Rep("success", baudrate))
                                 ELSE reports
                           /\ device_response' = TRUE
                           /\ pc' = "after_for"
                           /\ UNCHANGED loop_i
                      ELSE /\ reports' = Append(reports, Rep("unable", baudrate))
                           /\ loop_i' = loop_i + 1
                           /\ pc' = "for"
                           /\ UNCHANGED device_response
    /\ UNCHANGED << fn, VERBOSE, globals, log_level, cancel, cal_read, baudrate,
                    id_struct, config_struct, cal_data, channel_settings,
                    decoded, stream >>
    /\ UNCHANGED rxVars

\* if not device_response: print(...); exit(-1)
AfterFor ==
    /\ pc = "after_for"
    /\ IF NoDevice(device_response)
       THEN /\ reports' = Append(reports, Rep("none", 0))
            /\ exc' = "SystemExit"
            /\ pc' = "exit"
       ELSE /\ pc' = "read_calibration"
            /\ UNCHANGED << reports, exc >>
    /\ UNCHANGED << fn, VERBOSE, globals, log_level, cancel, cal_read, loop_i, baudrate,
                    device_response, attempts, last, wire, id_struct,
                    config_struct, cal_data, channel_settings, decoded,
                    stream >>
    /\ UNCHANGED rxVars

\* read_calibration()
ReadCalibration(id_avail, cfg_avail) ==
    /\ pc = "read_calibration"
    /\ LET r == read_calibration(baudrate, globals, VERBOSE, cal_data, id_avail,
                                 cfg_avail)
       IN  /\ wire' = wire \o r.io
           /\ id_struct' = r.id_struct
           /\ config_struct' = r.config_struct
           /\ cal_data' = r.cal_data
           /\ exc' = r.exc
           /\ cal_read' = [valid |-> TRUE, id |-> r.id_buffer,
                           asked_config |-> r.asked_config, size |-> r.size,
                           config |-> r.buffer]
           /\ pc' = IF r.exc = "none" THEN "continuous_data_rx" ELSE "exit"
           /\ reports' = reports \o r.printed
    /\ UNCHANGED << fn, VERBOSE, globals, log_level, cancel, loop_i, baudrate,
                    device_response, attempts, last, channel_settings, decoded,
                    stream >>
    /\ UNCHANGED rxVars


(***************************************************************************)
(* Conversion of raw words                                                 *)
(***************************************************************************)

RECURSIVE Pow2(_)
Pow2(n) == IF n = 0 THEN 1 ELSE 2 * Pow2(n - 1)

\* x << n
Shl(x, n) == x * Pow2(n)

\* x >> n
Shr(x, n) == x \div Pow2(n)

\* a | b and a & b on naturals, bit by bit
RECURSIVE BitOr(_, _)
BitOr(a, b) ==
    IF a = 0 THEN b
    ELSE IF b = 0 THEN a
    ELSE 2 * BitOr(a \div 2, b \div 2) + (IF a % 2 = 1 \/ b % 2 = 1 THEN 1 ELSE 0)

RECURSIVE BitAndNat(_, _)
BitAndNat(a, b) ==
    IF a = 0 \/ b = 0 THEN 0
    ELSE 2 * BitAndNat(a \div 2, b \div 2) + (IF a % 2 = 1 /\ b % 2 = 1 THEN 1 ELSE 0)

\* value & mask of Python for a mask in 0..0xFFFF: a negative value is taken
\* in two's complement, so only its low bits meet the mask.
PyAnd(value, mask) == BitAndNat(value % 65536, mask)

\* int8_from_adc(value)
int8_from_adc(value) == IF PyAnd(value, 128) # 0 THEN value - 256 ELSE value

\* the code taken as it is, bit 11 not tested
int16_from_adc_unsigned(value) == value

\* int16_from_adc(value)
int16_from_adc(value) == IF PyAnd(value, 2048) # 0 THEN value - 4096 ELSE value

\* rx_buffer[pos + 1] << 8 | rx_buffer[pos]  (pos counts from 0)
RawWord(frame, pos) == BitOr(Shl(frame[pos + 2], 8), frame[pos + 1])

\* int16_from_adc((rx_buffer[pos + 1] << 8 | rx_buffer[pos]) >> 4)
AdcCode(frame, pos) == int16_from_adc(Shr(RawWord(frame, pos), 4))

\* The factors 0.007568 (volts) and 0.0488 (amps), in millionths.
VOLT_SCALE == 7568

AMP_SCALE == 48800

\* device_clock_res = 3e6
device_clock_res == 3000000

\* Channels by index 0..7; an even index is a voltage, an odd one a current.
ChannelNames ==
    << "PCIE1_VOLTAGE", "PCIE1_CURRENT", "PCIE2_VOLTAGE", "PCIE2_CURRENT",
       "EPS1_VOLTAGE", "EPS1_CURRENT", "EPS2_VOLTAGE", "EPS2_CURRENT" >>

ScaleOf(ch) == IF ch % 2 = 0 THEN VOLT_SCALE ELSE AMP_SCALE

(***************************************************************************)
(* pmd-usb-logger.py: the decode of one frame (lines 226-352)              *)
(***************************************************************************)

\* timestamp_bytes = 4
timestamp_bytes == 4

\* Whether the decode reads channel ch: channel 0 is read unconditionally,
\* the others `if channel_settings[<name>]`.
ChannelRead(ch, cs) == IF ch = 0 THEN TRUE ELSE cs[ChannelNames[ch + 1]]

\* (int16_from_adc(word >> 4) + int8_from_adc(cal_data[ch])) * factor
ChannelValue(frame, pos, ch, cal) ==
    (AdcCode(frame, pos) + int8_from_adc(cal[ch + 1])) * ScaleOf(ch)

\* The channels in index order from channel ch on, rx_buffer_pos being pos:
\* st.values are the values so far (0 by default), st.reads the channels read
\* with the position each was read at.
RECURSIVE DecodeChannels(_, _, _, _, _, _, _)
DecodeChannels(frame, g, cs, cal, ch, pos, st) ==
    IF ch > 7 THEN [st EXCEPT !.end_pos = pos]
    ELSE IF ch > 0 /\ "channel_settings" \notin g
    THEN [st EXCEPT !.exc = "NameError", !.end_pos = pos]
    ELSE IF ~ChannelRead(ch, cs)
    THEN DecodeChannels(frame, g, cs, cal, ch + 1, pos, st)
    ELSE IF pos + 1 >= Len(frame)
    THEN [st EXCEPT !.exc = "IndexError", !.end_pos = pos]
    ELSE DecodeChannels(frame, g, cs, cal, ch + 1, pos + 2,
            [st EXCEPT !.values[ch + 1] = ChannelValue(frame, pos, ch, cal),
                       !.reads = Append(@, [ch |-> ch, pos |-> pos])])

\* the bytes of each 16-bit half taken the most significant one first
Ticks4HalvesBigEndian(frame) ==
    BitOr(BitOr(BitOr(Shl(frame[3], 24), Shl(frame[4], 16)),
                Shl(frame[1], 8)), frame[2])

\* rx_buffer[3] << 24 | rx_buffer[2] << 16 | rx_buffer[1] << 8 | rx_buffer[0]
Ticks4(frame) ==
    BitOr(BitOr(BitOr(Shl(frame[4], 24), Shl(frame[3], 16)),
                Shl(frame[2], 8)), frame[1])

DecodeLogger(frame, g, cs, cal) ==
    IF Len(frame) < 4
    THEN [exc |-> "IndexError", ticks |-> 0, clock |-> device_clock_res,
          values |-> Zeros(8), reads |-> << >>, end_pos |-> 0]
    ELSE DecodeChannels(frame, g, cs, cal, 0, timestamp_bytes,
            [exc |-> "none", ticks |-> Ticks4(frame),
             clock |-> device_clock_res, values |-> Zeros(8),
             reads |-> << >>, end_pos |-> 0])

(***************************************************************************)
(* main.py: the decodes of continuous_data_rx / continuous_data_rx_single  *)
(***************************************************************************)

\* the 8 values of continuous_data_rx, read at positions 0, 2, ..., 14; the
\* function takes no device timestamp (ticks 0)
DecodeRx(frame) ==
    IF Len(frame) < 16
    THEN [exc |-> "IndexError", ticks |-> 0, clock |-> device_clock_res,
          values |-> Zeros(8), reads |-> << >>, end_pos |-> 0]
    ELSE
    [exc |-> "none", ticks |-> 0, clock |-> device_clock_res,
     values |-> [k \in 1..8 |-> AdcCode(frame, 2 * (k - 1)) * ScaleOf(k - 1)],
     reads |-> [k \in 1..8 |-> [ch |-> k - 1, pos |-> 2 * (k - 1)]],
     end_pos |-> 16]

\* device timestamp (ticks, to be divided by clock) and PCIE1 voltage and
\* current of continuous_data_rx_single
DecodeSingle(frame) ==
    IF Len(frame) < 6
    THEN [exc |-> "IndexError", ticks |-> 0, clock |-> device_clock_res,
          values |-> Zeros(8), reads |-> << >>, end_pos |-> 0]
    ELSE
    [exc |-> "none", ticks |-> BitOr(Shl(frame[2], 8), frame[1]),
     clock |-> device_clock_res,
     values |-> [k \in 1..8 |-> IF k <= 2 THEN AdcCode(frame, 2 * k) * ScaleOf(k - 1)
                                ELSE 0],
     reads |-> << [ch |-> 0, pos |-> 2], [ch |-> 1, pos |-> 4] >>,
     end_pos |-> 6]

Decode(f, frame, g, cs, cal) ==
    IF f = "rx" THEN DecodeRx(frame)
    ELSE IF f = "single" THEN DecodeSingle(frame)
    ELSE DecodeLogger(frame, g, cs, cal)


(***************************************************************************)
(* The receive functions: continuous_data_rx of pmd-usb-logger.py          *)
(* ("logger"), continuous_data_rx ("rx") and continuous_data_rx_single     *)
(* ("single") of main.py                                                   *)
(***************************************************************************)

\* The four writes that configure the device's continuous transmission:
\* command, enable, timestamp bytes, channel mask.
StartCommand(f) ==
    IF f = "rx" THEN << << 7 >>, << 1 >>, << 0 >>, << 255 >> >>
    ELSE IF f = "single" THEN << << 7 >>, << 1 >>, << 2 >>, << 3 >> >>
    ELSE << PMD_USB_WRITE_CONT_TX, PMD_USB_ENABLE, PMD_USB_TIMESTAMP_FULL,
            PMD_USB_MASK_ALL >>

StartWrites(f) == [k \in 1..4 |-> EvWrite(StartCommand(f)[k])]

\* chunk_num_bytes as each function computes it:
\*   rx:      4*2*2
\*   single:  2 + 1*2*2
\*   logger:  timestamp_bytes + 2 * sum(8)
ChunkNumBytes(f) ==
    IF f = "rx" THEN Ok(4 * 2 * 2)
    ELSE IF f = "single" THEN Ok(2 + 1 * 2 * 2)
    ELSE LET s == builtin_sum(8)
         IN  IF s.exc # "none" THEN s ELSE Ok(timestamp_bytes + 2 * s.val)

\* the new bytes put in front of the buffer instead of behind it
ExtendInFront(buf, data) == data \o buf

\* input_buffer.extend(data)
Extend(buf, data) == buf \o data

\* a frame taken one byte early
FrameReadyOneShort(buf, n) == Len(buf) >= n - 1

\* while len(input_buffer) >= chunk_num_bytes
FrameReady(buf, n) == Len(buf) >= n

\* rx_buffer = input_buffer[0:chunk_num_bytes]
TakeFrame(buf, n) == PySlice(buf, 0, n)

\* the rest of the buffer dropped with the frame
RemainderDropped(buf, n) == << >>

\* input_buffer = input_buffer[chunk_num_bytes:]
Remainder(buf, n) == PySlice(buf, n, Len(buf))

\* The bytes the device sends: byte k (from 0) of stream st.
StreamByte(st, k) == (st.base + st.step * k) % 256

StreamBytes(st, from, n) == [i \in 1..n |-> StreamByte(st, from + i - 1)]

Streams == { [base |-> 0, step |-> 1], [base |-> 250, step |-> 37] }

\* At most this many bytes are delivered in a run.
MaxStream == 34

\* pmd-usb-logger.py, continuous_data_rx() up to the RX loop (lines 194-214).
LoggerRxSetup ==
    /\ pc = "continuous_data_rx"
    /\ fn = "logger"
    /\ IF "pmd.*" \notin globals
       THEN /\ wire' = wire \o << EvOpen(baudrate), EvReadAll >>
            /\ exc' = "NameError"
            /\ pc' = "exit"
            /\ UNCHANGED << input_buffer, chunk_num_bytes >>
       ELSE /\ wire' = wire \o << EvOpen(baudrate), EvReadAll >>
                            \o StartWrites(fn) \o << EvFlush >>
            /\ input_buffer' = << >>
            /\ LET c == ChunkNumBytes(fn)
               IN  IF c.exc # "none"
                   THEN /\ exc' = c.exc
                        /\ pc' = "exit"
                        /\ UNCHANGED chunk_num_bytes
                   ELSE /\ chunk_num_bytes' = c.val
                        /\ pc' = "rx_read"
                        /\ UNCHANGED exc
    /\ UNCHANGED << fn, VERBOSE, globals, log_level, cancel, cal_read, cal_data, channel_settings,
                    decoded, stream, rx_buffer, frames, samples, delivered,
                    last_chunk, count >>
    /\ UNCHANGED sessionVars

\* main.py, prime_connection(): the I/O it does at speed b
main_prime_connection(b) ==
    << EvOpen(b), EvWrite(<< 7 >>), EvWrite(<< 0 >>), EvWrite(<< 0 >>),
       EvWrite(<< 0 >>), EvFlush, EvSleep, EvReadAll >>

\* main.py, b'ElmorLabs PMD-USB'
MainGreeting ==
    << 69, 108, 109, 111, 114, 76, 97, 98, 115, 32, 80, 77, 68, 45, 85, 83,
       66 >>

\* main.py, check_connection() at speed b, the device answering the welcome
\* query with welcome_avail and the read-sensors query with sensor_avail.
main_check_connection(b, welcome_avail, sensor_avail) ==
    LET welcome == SerialRead(welcome_avail, 18)
        sensors == SerialRead(sensor_avail, 100)
        io1 == << EvOpen(b), EvWrite(<< 0 >>), EvFlush, EvRead(18) >>
        io2 == << EvWrite(<< 2 >>), EvFlush, EvRead(100) >>
    IN  IF welcome # MainGreeting
        THEN [exc |-> "AssertionError", io |-> io1, printed |-> << >>]
        ELSE [exc |-> "none", io |-> io1 \o io2,
              printed |-> << Said("struct", sensors) >>]

\* main.py, supported_baudrates
main_supported_baudrates ==
    { 115200, 115200, 230400, 460800, 921600, 1500000, 2000000 }

\* main.py, set_baud_rate(): the bytes written for the speed, in order
BaudWrites(baud_rate) ==
    (IF baud_rate = 115200 THEN << EvWrite(<< 0, 194, 1, 0 >>) >> ELSE << >>)
    \o (IF baud_rate = 230400 THEN << EvWrite(<< 0, 132, 3, 0 >>) >>
        ELSE IF baud_rate = 460800 THEN << EvWrite(<< 0, 8, 7, 0 >>) >>
        ELSE IF baud_rate = 921600 THEN << EvWrite(<< 0, 16, 14, 0 >>) >>
        ELSE IF baud_rate = 1500000 THEN << EvWrite(<< 96, 227, 22, 0 >>) >>
        ELSE IF baud_rate = 2000000 THEN << EvWrite(<< 128, 132, 30, 0 >>) >>
        ELSE << >>)

\* main.py, set_baud_rate(baud_rate), the port being set to speed cur
set_baud_rate(baud_rate, cur) ==
    IF baud_rate \notin main_supported_baudrates
    THEN [exc |-> "AssertionError", io |-> << >>, baudrate |-> cur]
    ELSE [exc |-> "none",
          io |-> << EvOpen(cur), EvWrite(<< 8 >>) >> \o BaudWrites(baud_rate)
                 \o << EvWrite(<< 2, 0, 0, 0 >>), EvWrite(<< 0, 0, 0, 0 >>),
                       EvWrite(<< 0, 0, 0, 0 >>), EvFlush, EvSleep >>,
          baudrate |-> baud_rate]

\* main.py run as a script: the ports are listed, then prime_connection().
\* Which ports the machine has is left out of the report.
MainPrime ==
    /\ pc = "main"
    /\ fn = "single"
    /\ reports' = Append(reports, Said("ports", << >>))
    /\ wire' = wire \o main_prime_connection(baudrate)
    /\ pc' = "main_check"
    /\ UNCHANGED << fn, VERBOSE, globals, log_level, cancel, cal_read, loop_i,
                    baudrate, device_response, attempts, last, id_struct,
                    config_struct, cal_data, exc, channel_settings, decoded,
                    stream >>
    /\ UNCHANGED rxVars

\* main.py, __main__: check_connection()
MainCheck(welcome_avail, sensor_avail) ==
    /\ pc = "main_check"
    /\ LET r == main_check_connection(baudrate, welcome_avail, sensor_avail)
       IN  /\ wire' = wire \o r.io
           /\ reports' = reports \o r.printed
           /\ exc' = r.exc
           /\ pc' = IF r.exc = "none" THEN "main_set_baud_rate" ELSE "exit"
    /\ UNCHANGED << fn, VERBOSE, globals, log_level, cancel, cal_read, loop_i,
                    baudrate, device_response, attempts, last, id_struct,
                    config_struct, cal_data, channel_settings, decoded,
                    stream >>
    /\ UNCHANGED rxVars

\* main.py, __main__: set_baud_rate(460800)
MainSetBaudRate ==
    /\ pc = "main_set_baud_rate"
    /\ LET r == set_baud_rate(460800, baudrate)
       IN  /\ wire' = wire \o r.io
           /\ baudrate' = r.baudrate
           /\ exc' = r.exc
           /\ pc' = IF r.exc = "none" THEN "continuous_data_rx" ELSE "exit"
    /\ UNCHANGED << fn, VERBOSE, globals, log_level, cancel, cal_read, loop_i,
                    device_response, attempts, last, reports, id_struct,
                    config_struct, cal_data, channel_settings, decoded,
                    stream >>
    /\ UNCHANGED rxVars

\* main.py, continuous_data_rx() / continuous_data_rx_single() up to the loop;
\* continuous_data_rx_single sets count = 0, continuous_data_rx has no count.
MainRxSetup ==
    /\ pc = "continuous_data_rx"
    /\ fn \in { "rx", "single" }
    /\ wire' = wire \o << EvOpen(baudrate) >> \o StartWrites(fn) \o << EvFlush >>
    /\ input_buffer' = << >>
    /\ count' = IF fn = "single" THEN 0 ELSE count
    /\ pc' = "rx_read"
    /\ UNCHANGED << fn, VERBOSE, globals, log_level, cancel, cal_read, cal_data, exc,
                    channel_settings, decoded, stream, chunk_num_bytes,
                    rx_buffer, frames, samples, delivered, last_chunk >>
    /\ UNCHANGED sessionVars

\* The number of ser.read_all() calls the loop has made: every receive
\* function ends its setup with ser.flush(), and the loop does no other I/O.
RECURSIVE LoopReads(_)
LoopReads(w) ==
    IF w = << >> \/ w[Len(w)] # EvReadAll THEN 0
    ELSE 1 + LoopReads(SubSeq(w, 1, Len(w) - 1))

\* At most this many turns of the outer loop are followed.
MaxReads == 17

\* input_buffer.extend(ser.read_all()), the port holding n bytes; main.py then
\* binds chunk_num_bytes, the logger has bound it before the loop.
RxRead(n) ==
    /\ pc = "rx_read"
    /\ LoopReads(wire) < MaxReads
    /\ wire' = Append(wire, EvReadAll)
    /\ LET data == StreamBytes(stream, Len(delivered), n)
       IN  /\ input_buffer' = Extend(input_buffer, data)
           /\ delivered' = delivered \o data
           /\ last_chunk' = n
    /\ chunk_num_bytes' = IF fn = "logger" THEN chunk_num_bytes
                          ELSE ChunkNumBytes(fn).val
    /\ pc' = "rx_chunks"
    /\ UNCHANGED << fn, VERBOSE, globals, log_level, cancel, cal_read, cal_data, exc,
                    channel_settings, decoded, stream, rx_buffer, frames,
                    samples, count >>
    /\ UNCHANGED sessionVars

\* round(x, digits) of a value held as a whole number of 1/unit, to a whole
\* number of step/unit (step = unit / 10^digits); Python rounds to the
\* nearest, and none of the values below lies half way.
RoundTo(x, step) == (2 * x + step) \div (2 * step)

\* round(device_timestamp, 6) in microseconds: ticks / 3e6 s
RoundedDeviceTime(ticks) == (2 * ticks + 3) \div 6

\* round(pcie1_v * pcie1_i, 6) in microwatts for the two codes:
\* v * i * 0.007568 * 0.0488 W = v * i * 230824 / 625 uW
RoundedPower(code_v, code_i) ==
    LET q == code_v * code_i
    IN  (q \div 625) * 230824 + (2 * (q % 625) * 230824 + 625) \div 1250

\* main.py line 220: print('PCIE1 Time: ', round(system_timestamp, 6), ' ',
\* round(device_timestamp, 6), ' ', round(pcie1_v, 3), 'V', ' ',
\* round(pcie1_i, 6), 'A', ' ', round(pcie1_p, 6), 'W').  The time of the
\* host is left out; the others are in microseconds, millivolts,
\* microamperes and microwatts.
SinglePrinted(frame) ==
    Said("PCIE1 Time",
         << RoundedDeviceTime(BitOr(Shl(frame[2], 8), frame[1])),
            RoundTo(AdcCode(frame, 2) * 7568, 1000),
            AdcCode(frame, 4) * 48800,
            RoundedPower(AdcCode(frame, 2), AdcCode(frame, 4)) >>)

\* main.py line 177: print('Time: ', round(timestamp, 6), 'PCIE1_V: ',
\* round(pcie1_v, 3), 'V'), the time of the host left out
RxPrinted(frame) ==
    Said("Time", << RoundTo(AdcCode(frame, 0) * 7568, 1000) >>)

\* main.py line 225: if(count == 1000)
KspsEvery == 1000

\* main.py line 229: print("KS/s: ", ksps); ksps depends on the host's clock
KspsPrinted == Said("KS/s", << >>)

\* One turn of the inner while loop: a frame is taken off the buffer, decoded
\* and printed.  continuous_data_rx_single then counts it and prints the rate
\* at every 1000th.  The logger does value_buffer.append(eps1_i) (line 354)
\* with value_buffer, a local of the function, not yet assigned, before it
\* counts or prints anything.
RxExtract ==
    /\ pc = "rx_chunks"
    /\ FrameReady(input_buffer, chunk_num_bytes)
    /\ rx_buffer' = TakeFrame(input_buffer, chunk_num_bytes)
    /\ input_buffer' = Remainder(input_buffer, chunk_num_bytes)
    /\ frames' = Append(frames, rx_buffer')
    /\ LET d == Decode(fn, rx_buffer', globals, channel_settings, cal_data)
       IN  /\ samples' = Append(samples, d)
           /\ exc' = IF d.exc = "none" /\ fn = "logger"
                     THEN "UnboundLocalError" ELSE d.exc
           /\ pc' = IF exc' = "none" THEN pc ELSE "exit"
    /\ IF exc' # "none" \/ fn = "logger"
       THEN UNCHANGED << reports, count >>
       ELSE IF fn = "rx"
       THEN /\ reports' = Append(reports, RxPrinted(rx_buffer'))
            /\ UNCHANGED count
       ELSE IF count + 1 = KspsEvery
       THEN /\ reports' = reports \o << SinglePrinted(rx_buffer'), KspsPrinted >>
            /\ count' = 0
       ELSE /\ reports' = Append(reports, SinglePrinted(rx_buffer'))
            /\ count' = count + 1
    /\ UNCHANGED << fn, VERBOSE, globals, log_level, cancel, cal_read, wire, cal_data,
                    channel_settings, decoded, stream, chunk_num_bytes,
                    delivered, last_chunk >>
    /\ UNCHANGED << loop_i, baudrate, device_response, attempts, last,
                    id_struct, config_struct >>

\* the outer loop left when the read returned nothing
RxLoopBackStopsWhenIdle ==
    /\ pc = "rx_chunks"
    /\ ~FrameReady(input_buffer, chunk_num_bytes)
    /\ pc' = IF last_chunk = 0 THEN "exit" ELSE "rx_read"
    /\ UNCHANGED << fn, VERBOSE, globals, log_level, cancel, cal_read, wire, cal_data, exc,
                    channel_settings, decoded, stream >>
    /\ UNCHANGED sessionVars
    /\ UNCHANGED rxVars

\* The inner while loop ends; the outer loop goes back to reading.
RxLoopBack ==
    /\ pc = "rx_chunks"
    /\ ~FrameReady(input_buffer, chunk_num_bytes)
    /\ pc' = "rx_read"
    /\ UNCHANGED << fn, VERBOSE, globals, log_level, cancel, cal_read, wire, cal_data, exc,
                    channel_settings, decoded, stream >>
    /\ UNCHANGED sessionVars
    /\ UNCHANGED rxVars

\* The cancellation signal is raised from outside while the loop runs.  No
\* statement of the receive functions reads it: their loops are `while True:`
\* and __main__ ends in `# TODO exit gracefully`.
Cancel ==
    /\ pc \in { "rx_read", "rx_chunks" }
    /\ ~cancel
    /\ cancel' = TRUE
    /\ UNCHANGED << pc, fn, VERBOSE, globals, log_level, cal_read, wire, cal_data, exc,
                    channel_settings, decoded, stream >>
    /\ UNCHANGED sessionVars
    /\ UNCHANGED rxVars

(***************************************************************************)
(* The decode of one frame, applied on its own                             *)
(***************************************************************************)

AllChannels == [name \in { ChannelNames[k] : k \in 1..8 } |-> TRUE]

ChannelSettings == [{ ChannelNames[k] : k \in 1..8 } -> BOOLEAN]

\* Frames of 20 bytes, the length of a frame with a 4-byte timestamp and
\* all 8 channels.
DecodeFrames ==
    { StreamBytes(st, 0, 20) : st \in Streams }
        \cup { << 192, 198, 45, 0 >> \o StreamBytes([base |-> 7, step |-> 11], 4, 16) }

DecodeCalData ==
    { InitialCalData } \cup { [i \in 1..8 |-> off[i]] : off \in DeviceOffsets }

\* the decode storing the sign-extended offsets back into cal_data
DecodeFrameCalibrating ==
    /\ pc = "decode"
    /\ decoded' = DecodeLogger(rx_buffer, globals, channel_settings, cal_data)
    /\ cal_data' = [i \in 1..8 |-> int8_from_adc(cal_data[i])]
    /\ pc' = "decoded"
    /\ UNCHANGED << fn, VERBOSE, globals, log_level, cancel, cal_read, wire, exc,
                    channel_settings, stream >>
    /\ UNCHANGED sessionVars
    /\ UNCHANGED rxVars

DecodeFrame ==
    /\ pc = "decode"
    /\ decoded' = DecodeLogger(rx_buffer, globals, channel_settings, cal_data)
    /\ pc' = "decoded"
    /\ UNCHANGED << fn, VERBOSE, globals, log_level, cancel, cal_read, wire, cal_data, exc,
                    channel_settings, stream >>
    /\ UNCHANGED sessionVars
    /\ UNCHANGED rxVars

(***************************************************************************)
(* The conversion of one raw word, applied on its own                      *)
(***************************************************************************)

\* Every raw 16-bit word, as the 2 bytes of a frame (low byte first).
RawWords == [1..2 -> 0..255]

\* Words around the sign bit of the 12-bit code and at both ends.
BoundaryWords ==
    { << 0, 0 >>, << 240, 127 >>, << 0, 128 >>, << 255, 255 >>, << 16, 0 >>,
      << 0, 1 >> }

\* Every value a c_int8 offset of the config structure can have.
Int8Values == -128..127

\* pcie1_v of lines 252-260 for the 2 bytes of rx_buffer and cal_data[0]:
\* the sign-extended code, the offset as int8_from_adc returns it, their sum
\* and the scaled value.
ConvertWord ==
    /\ pc = "convert"
    /\ decoded' = [bound |-> TRUE,
                   word |-> RawWord(rx_buffer, 0),
                   adc |-> AdcCode(rx_buffer, 0),
                   offset |-> int8_from_adc(cal_data[1]),
                   code |-> AdcCode(rx_buffer, 0) + int8_from_adc(cal_data[1]),
                   value |-> ChannelValue(rx_buffer, 0, 0, cal_data)]
    /\ pc' = "converted"
    /\ UNCHANGED << fn, VERBOSE, globals, log_level, cancel, cal_read, wire, cal_data, exc,
                    channel_settings, stream >>
    /\ UNCHANGED sessionVars
    /\ UNCHANGED rxVars

(***************************************************************************)
(* Specifications                                                          *)
(***************************************************************************)

NoCalRead ==
    [valid |-> FALSE, id |-> << >>, asked_config |-> FALSE, size |-> 0,
     config |-> << >>]

NoAttempt ==
    [valid |-> FALSE, baud |-> 0, ok |-> FALSE, welcome |-> << >>,
     asked_sensors |-> FALSE, sensors |-> << >>]

InitCommon ==
    /\ loop_i = 1
    /\ device_response = FALSE
    /\ attempts = << >>
    /\ last = NoAttempt
    /\ wire = << >>
    /\ reports = << >>
    /\ id_struct = Unset
    /\ config_struct = "none"
    /\ input_buffer = << >>
    /\ chunk_num_bytes = 0
    /\ frames = << >>
    /\ samples = << >>
    /\ delivered = << >>
    /\ last_chunk = 0
    /\ count = 0
    /\ decoded = Unset
    /\ cal_read = NoCalRead
    /\ cancel = FALSE

\* The names bound when pmd-usb-logger.py, without lines 177-184, runs: none,
\* then more and more of those the handshake reads.
Environments ==
    { { }, { "VERBOSE" }, { "pmd.*" }, { "VERBOSE", "pmd.*" },
      { "VERBOSE", "pmd.*", "PMD_USB_ConfigStruct" },
      { "VERBOSE", "pmd.*", "PMD_USB_ConfigStruct", "PMD_USB_ConfigStruct_V5" } }

\* The command lines: no option, or -v.
LogArgs == { [quiet |-> FALSE, verbose |-> 0], [quiet |-> FALSE, verbose |-> 1] }

\* What the device may answer to main.py's read-sensors query, of which
\* main.py reads at most 100 bytes.
MainSensorAnswers == { a \in SensorAnswers : Len(a) \in { 0, 100 } }

\* pmd-usb-logger.py as written, run as a script: Python compiles the file
\* before it runs any of it, finds `for ()` at line 184 and raises
\* SyntaxError.  Nothing is bound, nothing is printed by the script and no
\* port is opened.
InitAsWritten ==
    /\ InitCommon
    /\ pc = "exit"
    /\ exc = "SyntaxError"
    /\ fn = "logger"
    /\ globals = { }
    /\ VERBOSE = FALSE
    /\ log_level = "WARNING"
    /\ baudrate = supported_baudrates[1]
    /\ cal_data = InitialCalData
    /\ rx_buffer = << >>
    /\ stream \in Streams
    /\ channel_settings = AllChannels

\* pmd-usb-logger.py without lines 177-184, run as a script, from the for
\* statement of __main__; configure_logging(args) has set the level.
InitRepaired ==
    /\ InitCommon
    /\ exc = "none"
    /\ pc = "for"
    /\ fn = "logger"
    /\ globals \in Environments
    /\ VERBOSE \in (IF "VERBOSE" \in globals THEN BOOLEAN ELSE { FALSE })
    /\ \E args \in LogArgs :
          log_level = configure_logging(args.quiet, args.verbose)
    /\ baudrate = supported_baudrates[1]
    /\ cal_data = InitialCalData
    /\ rx_buffer = << >>
    /\ stream \in Streams
    /\ channel_settings = AllChannels

Init == InitAsWritten \/ InitRepaired

Next ==
    \/ ForIter
    \/ ForExhausted
    \/ \E w \in WelcomeAnswers, s \in SensorAnswers : CheckConnection(w, s)
    \/ AfterFor
    \/ \E i \in IdAnswers, c \in ConfigAnswers : ReadCalibration(i, c)
    \/ LoggerRxSetup

Spec == Init /\ [][Next]_vars

\* The script keeps running: every statement ends (the reads of the port
\* have a timeout of 1 s, pmd_settings["timeout"]; sleep(1) returns), and the
\* interpreter then runs the next one.
SpecLive == Init /\ [][Next]_vars /\ WF_vars(Next)

\* main.py run as a script, which ends in continuous_data_rx_single
\* ("single"), and continuous_data_rx ("rx"), which nothing calls, from its
\* first statement.
InitRx ==
    /\ InitCommon
    /\ exc = "none"
    /\ fn \in { "rx", "single" }
    /\ pc = IF fn = "single" THEN "main" ELSE "continuous_data_rx"
    /\ VERBOSE = FALSE
    /\ globals = { }
    /\ log_level = "WARNING"
    /\ baudrate = 115200
    /\ cal_data = InitialCalData
    /\ rx_buffer = << >>
    /\ stream \in Streams
    /\ channel_settings = AllChannels

NextRx ==
    \/ MainPrime
    \/ \E w \in WelcomeAnswers, s \in MainSensorAnswers : MainCheck(w, s)
    \/ MainSetBaudRate
    \/ MainRxSetup
    \/ \E n \in 0..(MaxStream - Len(delivered)) : RxRead(n)
    \/ RxExtract
    \/ RxLoopBack

SpecRx == InitRx /\ [][NextRx]_vars

\* The receive function with the cancellation signal raised at any moment of
\* the loop.  The interpreter always runs the function's next statement.
NextRxCancel ==
    \/ NextRx
    \/ Cancel

SpecRxCancel == InitRx /\ [][NextRxCancel]_vars /\ WF_vars(NextRx)

\* The logger's decode of one frame, for every frame, channel setting and
\* calibration data of the sets above.
InitDecode ==
    /\ InitCommon
    /\ exc = "none"
    /\ pc = "decode"
    /\ fn = "logger"
    /\ VERBOSE = FALSE
    /\ globals \in { UnboundNames,
                     UnboundNames \ { "channel_settings" } }
    /\ log_level = "WARNING"
    /\ baudrate = supported_baudrates[1]
    /\ cal_data \in DecodeCalData
    /\ rx_buffer \in DecodeFrames
    /\ stream \in Streams
    /\ channel_settings \in (IF "channel_settings" \in globals
                             THEN ChannelSettings ELSE { AllChannels })

NextDecode == DecodeFrame

\* Every run above: the script, the receive functions of main.py and the
\* decode of one frame.
InitSession == Init \/ InitRx \/ InitDecode

NextSession == Next \/ NextRx \/ NextDecode

SpecSession == InitSession /\ [][NextSession]_vars

\* The conversion of one raw word: every word with offset 0, and the
\* boundary words with every offset.
InitConvert ==
    /\ InitCommon
    /\ exc = "none"
    /\ pc = "convert"
    /\ fn = "logger"
    /\ VERBOSE = FALSE
    /\ globals = { }
    /\ log_level = "WARNING"
    /\ baudrate = supported_baudrates[1]
    /\ \/ /\ rx_buffer \in RawWords
          /\ cal_data = InitialCalData
       \/ /\ rx_buffer \in BoundaryWords
          /\ cal_data \in { [InitialCalData EXCEPT ![1] = o] : o \in Int8Values }
    /\ stream = [base |-> 0, step |-> 1]
    /\ channel_settings = AllChannels

NextConvert == ConvertWord

SpecConvert == InitConvert /\ [][NextConvert]_vars

SpecDecode == InitDecode /\ [][NextDecode]_vars


(***************************************************************************)
(* The receive loop (SpecRx)                                               *)
(***************************************************************************)

\* The frames of n bytes a byte sequence holds, cut at multiples of n.
CanonicalFrames(bytes, n) ==
    [k \in 1..(Len(bytes) \div n) |-> SubSeq(bytes, (k - 1) * n + 1, k * n)]

RECURSIVE Flatten(_)
Flatten(ss) == IF ss = << >> THEN << >> ELSE Head(ss) \o Flatten(Tail(ss))

IsPrefix(s, t) == Len(s) <= Len(t) /\ s = SubSeq(t, 1, Len(s))

\* C1. Chunk-boundary independence: the frames extracted depend on the bytes
\* delivered only, not on how the deliveries split them.  Whenever the loop
\* is back at the read, the frames extracted so far are the delivered bytes
\* cut at multiples of the frame length, in order; while frames are being
\* extracted they are a prefix of that sequence; and each sample is the
\* decode of its frame.
C1_ChunkIndependence ==
    pc \in { "rx_read", "rx_chunks" } /\ chunk_num_bytes > 0 =>
        /\ IsPrefix(frames, CanonicalFrames(delivered, chunk_num_bytes))
        /\ pc = "rx_read" => frames = CanonicalFrames(delivered, chunk_num_bytes)
        /\ Len(samples) = Len(frames)
        /\ \A k \in 1..Len(frames) :
              samples[k] = Decode(fn, frames[k], globals, channel_settings,
                                  cal_data)

\* Two frames have been extracted and the second was completed by a delivery
\* of a single byte.
C1_Witness ==
    /\ pc = "rx_read"
    /\ Len(frames) = 2
    /\ last_chunk = 1
    /\ Len(delivered) = 2 * chunk_num_bytes

\* C2. Byte conservation: the frames extracted so far, concatenated in
\* extraction order, followed by the accumulation buffer, are the bytes
\* delivered so far in arrival order.
C2_ByteConservation ==
    pc \in { "rx_read", "rx_chunks" } => Flatten(frames) \o input_buffer = delivered

\* A frame arrived in two parts, the second part shorter than a frame, and
\* exactly one frame has been extracted.
C2_Witness ==
    /\ pc = "rx_chunks"
    /\ Len(delivered) = chunk_num_bytes
    /\ last_chunk > 0
    /\ last_chunk < chunk_num_bytes
    /\ Len(frames) = 1
    /\ input_buffer = << >>

\* C3. A frame is extracted only when the buffer holds at least a frame's
\* length; the extraction takes exactly that many bytes off the front of the
\* buffer; and the loop goes back to the read only with fewer bytes than a
\* frame's length in the buffer.
C3_WholeFramesOnly ==
    [][ /\ frames' # frames =>
            /\ chunk_num_bytes > 0
            /\ Len(input_buffer) >= chunk_num_bytes
            /\ Len(input_buffer') = Len(input_buffer) - chunk_num_bytes
            /\ Len(rx_buffer') = chunk_num_bytes
            /\ input_buffer = rx_buffer' \o input_buffer'
            /\ frames' = Append(frames, rx_buffer')
        /\ (pc = "rx_chunks" /\ pc' = "rx_read") =>
            Len(input_buffer') < chunk_num_bytes' ]_vars

\* The loop is back at the read with a partial frame in the buffer, after
\* having extracted a frame.
C3_Witness ==
    /\ pc = "rx_read"
    /\ Len(frames) >= 1
    /\ Len(input_buffer) > 0
    /\ Len(input_buffer) < chunk_num_bytes


(***************************************************************************)
(* The handshake (Spec)                                                    *)
(***************************************************************************)

RECURSIVE Popcount(_)
Popcount(m) == IF m = 0 THEN 0 ELSE (m % 2) + Popcount(m \div 2)

\* The places of the wire log where a start-stream command begins: the
\* write of 0x07 followed by the write of 0x01 (enable).
StartPlaces ==
    { k \in 1..(Len(wire) - 3) :
        wire[k] = EvWrite(<< 7 >>) /\ wire[k + 1] = EvWrite(<< 1 >>) }

StartSent == StartPlaces # { }

Streaming == pc \in { "rx_read", "rx_chunks" }

\* The place of the wire log where the config read begins: the write of
\* 0x04 that is flushed and followed by a read.
ConfigReadPlaces ==
    { k \in 1..(Len(wire) - 2) :
        /\ wire[k] = EvWrite(<< 4 >>)
        /\ wire[k + 1] = EvFlush
        /\ wire[k + 2].op = "read" }

Succeeded == { i \in 1..Len(attempts) : attempts[i].ok }

PlaceOf(b) == CHOOSE i \in 1..Len(ProbeOrder) : ProbeOrder[i] = b

\* C4. The frame length the receive loop uses is the timestamp bytes plus 2
\* for every channel of the mask, for the timestamp mode and the mask written
\* to the device (20 for 4 timestamp bytes and mask 0xFF), and the decode of
\* a frame reads that many bytes.
C4_FrameLength ==
    \A k \in StartPlaces :
        /\ exc = "none"
        /\ chunk_num_bytes = wire[k + 2].data[1] + 2 * Popcount(wire[k + 3].data[1])
        /\ \A j \in 1..Len(samples) : samples[j].end_pos = chunk_num_bytes

\* C6. The speeds are tried from the highest to the lowest: each attempt is
\* at a lower speed than the one before, every supported speed above an
\* attempted one was tried before it and failed, no attempt follows a
\* success, and after a success the port is never opened at a lower speed.
C6_HighestFirst ==
    /\ \A i, j \in 1..Len(attempts) : i < j => attempts[i].baud > attempts[j].baud
    /\ \A i \in 1..Len(attempts) :
          \A k \in 1..Len(supported_baudrates) :
              supported_baudrates[k] > attempts[i].baud =>
                  \E j \in 1..(i - 1) :
                      /\ attempts[j].baud = supported_baudrates[k]
                      /\ ~attempts[j].ok
    /\ \A i \in Succeeded : i = Len(attempts)
    /\ \A i \in Succeeded :
          \A k \in 1..Len(wire) :
              wire[k].op = "open" => wire[k].baud >= attempts[i].baud

\* Identification failed at the three highest speeds and succeeded at
\* 460800; the script has gone on to open the port for the calibration read.
C6_Witness ==
    /\ Len(attempts) = 4
    /\ attempts[4] = [baud |-> 460800, ok |-> TRUE]
    /\ id_struct # Unset

\* C7. The start-stream command is written and the receive loop entered only
\* after identification succeeded at a supported speed and the calibration
\* read completed.  When every speed has failed, or the identity or config
\* read fails (with ValueError, or with the NameError of a name that is not
\* bound), or the file does not compile (SyntaxError), the script ends
\* without the start-stream command.
C7_NoStreamWithoutCalibration ==
    /\ (StartSent \/ Streaming) =>
          /\ device_response
          /\ \E i \in Succeeded :
                \E k \in 1..Len(supported_baudrates) :
                    attempts[i].baud = supported_baudrates[k]
          /\ id_struct # Unset
          /\ config_struct # "none"
    /\ (Len(attempts) = Len(supported_baudrates) /\ Succeeded = { }) =>
          /\ pc \in { "for", "after_for", "exit" }
          /\ pc = "exit" => exc = "SystemExit"
          /\ ~StartSent
    /\ exc \in { "SystemExit", "ValueError", "NameError", "SyntaxError" } =>
          pc = "exit" /\ ~StartSent /\ ~Streaming /\ config_struct = "none"

\* The identity was read, the config read failed, and the script has ended
\* without the start-stream command.
C7_Witness ==
    /\ pc = "exit"
    /\ exc = "ValueError"
    /\ id_struct # Unset
    /\ device_response
    /\ ~StartSent

\* The offsets of some device, as the calibration data holds them.
IsDeviceOffsets(cal) == \E off \in DeviceOffsets : cal = [i \in 1..8 |-> off[i]]

\* C8 as stated: a firmware version below 5 selects the legacy layout, one
\* from 5 on the extended layout.
C8_ThresholdFive ==
    config_struct # "none" =>
        config_struct = (IF id_struct.Firmware < 5 THEN "ConfigStruct"
                         ELSE "ConfigStructV5")

\* C8, amended. The layout is a function of the firmware version alone:
\* below 6 the legacy layout, whose 26 bytes are read, from 6 on the
\* extended layout, whose 34 bytes are read; the 8 offsets are those of the
\* device's offset array in either case.
C8_ThresholdSix ==
    /\ config_struct # "none" =>
          /\ id_struct # Unset
          /\ config_struct = (IF id_struct.Firmware < 6 THEN "ConfigStruct"
                              ELSE "ConfigStructV5")
          /\ IsDeviceOffsets(cal_data)
    /\ \A k \in ConfigReadPlaces :
          /\ id_struct # Unset
          /\ wire[k + 2].n = (IF id_struct.Firmware < 6 THEN 26 ELSE 34)

\* Firmware 5 was reported and the legacy layout decoded.
C8_Witness ==
    /\ id_struct # Unset
    /\ id_struct.Firmware = 5
    /\ config_struct = "ConfigStruct"
    /\ cal_data # InitialCalData

\* C9. A firmware version of 99 makes the calibration load fail: the script
\* ends with an error, the offsets are as they were, no stream is started.
C9_UnsupportedFirmware ==
    (id_struct # Unset /\ id_struct.Firmware = 99) =>
        /\ pc = "exit"
        /\ exc # "none"
        /\ cal_data = InitialCalData
        /\ config_struct = "none"
        /\ ~StartSent

\* an answer of 18 bytes that begins with the greeting
IsGreeting18(w) == Len(w) = 18 /\ SubSeq(w, 1, 17) = PMD_USB_RESPONSE

\* C10 as stated: identification succeeds exactly when the answer to the
\* welcome query is the greeting of 18 bytes.
C10_Greeting18 == last.valid => (last.ok <=> IsGreeting18(last.welcome))

\* C10, amended. Identification at a speed succeeds exactly when the bytes
\* read (at most 18) in answer to the welcome query are the greeting of 17
\* bytes and the read-sensors query is answered with the 48 bytes of the
\* sensor structure; otherwise the next lower speed is the next one tried.
C10_Greeting17AndSensors ==
    last.valid =>
        /\ Len(last.welcome) <= 18
        /\ last.ok <=>
              /\ last.welcome = PMD_USB_RESPONSE
              /\ Len(last.welcome) = 17
              /\ last.asked_sensors
              /\ Len(last.sensors) = 48
        /\ last.ok => device_response /\ pc # "for" /\ pc # "check"
        /\ ~last.ok =>
              /\ loop_i = PlaceOf(last.baud) + 1
              /\ pc = "check" => baudrate = ProbeOrder[PlaceOf(last.baud) + 1]
              /\ pc \in { "for", "check", "after_for", "exit" }

\* An answer of 18 bytes that begins with the greeting was rejected and the
\* next speed is being tried.
C10_Witness ==
    /\ last.valid
    /\ IsGreeting18(last.welcome)
    /\ ~last.ok
    /\ pc = "check"

(***************************************************************************)
(* The decode of one frame (SpecDecode)                                    *)
(***************************************************************************)

Enabled(ch) == channel_settings[ChannelNames[ch + 1]]

\* the number of enabled channels with an index below ch
EnabledBelow(ch) == Cardinality({ j \in 0..(ch - 1) : Enabled(j) })

\* C5. The channels are read in index order, only the enabled ones: channel
\* ch, when enabled, is read from the 2 bytes at the timestamp bytes plus 2
\* for every enabled channel below it; a disabled channel, channel 0
\* included, is not read and does not move the channels after it.
C5_EnabledChannelsInOrder ==
    pc = "decoded" =>
        /\ \A i, j \in 1..Len(decoded.reads) :
              i < j => decoded.reads[i].ch < decoded.reads[j].ch
        /\ \A ch \in 0..7 :
              IF Enabled(ch)
              THEN /\ \E i \in 1..Len(decoded.reads) :
                         /\ decoded.reads[i].ch = ch
                         /\ decoded.reads[i].pos = 4 + 2 * EnabledBelow(ch)
                   /\ decoded.values[ch + 1] =
                         ChannelValue(rx_buffer, 4 + 2 * EnabledBelow(ch), ch, cal_data)
              ELSE /\ \A i \in 1..Len(decoded.reads) : decoded.reads[i].ch # ch
                   /\ decoded.values[ch + 1] = 0


(***************************************************************************)
(* The order of the I/O on the port (Spec, SpecSession)                    *)
(***************************************************************************)

\* A query: the write of one opcode, flushed and followed by a read.
QueryPlaces(opcode) ==
    { k \in 1..(Len(wire) - 2) :
        /\ wire[k] = EvWrite(<< opcode >>)
        /\ wire[k + 1] = EvFlush
        /\ wire[k + 2].op = "read" }

WelcomePlaces == QueryPlaces(0)

IdPlaces == QueryPlaces(1)

OpenPlaces == { k \in 1..Len(wire) : wire[k].op = "open" }

\* the speed the port is open at when the I/O at place k is done
RECURSIVE BaudAt(_)
BaudAt(k) == IF wire[k].op = "open" THEN wire[k].baud ELSE BaudAt(k - 1)

\* C15: once identification has succeeded at a speed, pmd_settings holds
\* that speed in every later state, the successful welcome query was sent at
\* it, and every later opening of the port (for the calibration read and for
\* the stream) is at exactly that speed.
C15_SpeedFixedAfterSuccess ==
    \A i \in Succeeded :
        /\ device_response
        /\ baudrate = attempts[i].baud
        /\ \A w \in WelcomePlaces :
              (\A w2 \in WelcomePlaces : w2 <= w) =>
                  /\ BaudAt(w) = attempts[i].baud
                  /\ \A k \in OpenPlaces : k > w => wire[k].baud = attempts[i].baud

\* Identification succeeded at 460800 after three failures, and the port
\* was opened again for the calibration read and for the stream.
C15_Witness ==
    /\ Len(attempts) = 4
    /\ attempts[4].ok
    /\ attempts[4].baud = 460800
    /\ StartSent
    /\ Cardinality(OpenPlaces) = 10

\* C16: every welcome query is sent at a speed that was primed first: after
\* the port was opened at that speed the stop command 0x07, 0x00, 0x00, 0x00
\* was written and flushed and the buffered input discarded, with no other
\* speed set in between, in pmd-usb-logger.py and in main.py; in
\* pmd-usb-logger.py this holds for every attempt.
C16_PrimedBeforeWelcome ==
    LET opens == OpenPlaces
        welcomes == WelcomePlaces
        \* the speed the port is open at for the query at place w
        speed == [w \in welcomes |-> BaudAt(w)]
    IN  /\ \A w \in welcomes :
              \E j \in opens :
                  /\ j + 5 < w
                  /\ wire[j].baud = speed[w]
                  /\ wire[j + 1] = EvWrite(<< 7 >>)
                  /\ wire[j + 2] = EvWrite(<< 0 >>)
                  /\ wire[j + 3] = EvWrite(<< 0 >>)
                  /\ wire[j + 4] = EvWrite(<< 0 >>)
                  /\ wire[j + 5] = EvFlush
                  /\ \E d \in (j + 6)..(w - 1) : wire[d] = EvReadAll
                  /\ \A k \in opens :
                        (j < k /\ k < w) => wire[k].baud = wire[j].baud
        /\ fn = "logger" => Cardinality(welcomes) = Len(attempts)
        /\ \A i \in 1..Len(attempts) :
              \E w \in welcomes : speed[w] = attempts[i].baud

\* The welcome query was sent at three speeds, each primed before.
C16_Witness ==
    /\ Cardinality(WelcomePlaces) = 3
    /\ Len(attempts) = 3
    /\ attempts[3].ok

\* C17: the queries are sent in the order welcome, read identity, read
\* config, start of the stream: the identity is read only after a welcome
\* query, the config is read only after the identity was read and decoded,
\* its size being the one of the layout the decoded firmware selects, and
\* the start command is written only after the config was read.
C17_HandshakeOrder ==
    /\ \A i \in IdPlaces :
          /\ \A w \in WelcomePlaces : w < i
          /\ WelcomePlaces # { }
    /\ \A c \in ConfigReadPlaces :
          /\ \E i \in IdPlaces : i < c
          /\ \A i \in IdPlaces : i < c
          /\ id_struct.bound
          /\ wire[c + 2].n = (IF id_struct.Firmware < 6 THEN 26 ELSE 34)
    /\ \A t \in StartPlaces :
          /\ \E c \in ConfigReadPlaces : c < t
          /\ \A c \in ConfigReadPlaces : c < t
          /\ wire[t + 1] = EvWrite(<< 1 >>)
    /\ Cardinality(IdPlaces) <= 1
    /\ Cardinality(ConfigReadPlaces) <= 1
    /\ Cardinality(StartPlaces) <= 1

\* The four commands were issued, the config read with the size of the
\* extended layout for firmware 6.
C17_Witness ==
    /\ WelcomePlaces # { }
    /\ IdPlaces # { }
    /\ ConfigReadPlaces # { }
    /\ StartPlaces # { }
    /\ id_struct.bound
    /\ id_struct.Firmware = 6

(***************************************************************************)
(* Empty reads (SpecRx)                                                    *)
(***************************************************************************)

\* C19: a read that returns no bytes changes nothing for the decoder: the
\* read, which the port sees as one more read_all, leaves the buffer as it
\* was, and the turn of the loop it starts extracts no frame, emits no
\* sample, prints nothing, raises nothing and goes back to the read, so the
\* function is in its loop after any number of empty reads.
C19_EmptyReadNoOp ==
    [][ /\ (pc = "rx_read" /\ last_chunk' = 0) =>
            /\ wire' = Append(wire, EvReadAll)
            /\ input_buffer' = input_buffer
            /\ delivered' = delivered
            /\ frames' = frames
            /\ samples' = samples
            /\ reports' = reports
            /\ count' = count
            /\ exc' = "none"
            /\ pc' = "rx_chunks"
        /\ (pc = "rx_chunks" /\ last_chunk = 0) =>
            /\ wire' = wire
            /\ input_buffer' = input_buffer
            /\ frames' = frames
            /\ samples' = samples
            /\ reports' = reports
            /\ count' = count
            /\ exc' = "none"
            /\ pc' = "rx_read" ]_vars

\* Back at the read after three empty reads in a row, with a partial frame
\* still in the buffer and a frame extracted earlier.
C19_Witness ==
    /\ pc = "rx_read"
    /\ last_chunk = 0
    /\ input_buffer # << >>
    /\ frames # << >>
    /\ LoopReads(wire) >= 4
    /\ Len(delivered) = Len(input_buffer) + chunk_num_bytes

(***************************************************************************)
(* The decoder's configuration and the device's (SpecSession)              *)
(***************************************************************************)

\* the channels of a mask byte
MaskChannels(mask) == { ch \in 0..7 : (mask \div Pow2(ch)) % 2 = 1 }

\* C18: the timestamp width and the channel mask written to the device with
\* the start command are those the receive function works with: once it is
\* past the statement that sets the frame length, the frame length is the
\* width written plus 2 for every channel of the mask written, in every
\* later state, and every frame is decoded as that many timestamp bytes
\* followed by exactly the channels of the mask.
C18_DecoderMatchesDevice ==
    \A t \in StartPlaces :
        LET width == wire[t + 2].data[1]
            mask == wire[t + 3].data[1]
        IN  /\ (pc \in { "rx_chunks", "exit" } \/ delivered # << >>) =>
                  chunk_num_bytes = width + 2 * Popcount(mask)
            /\ \A j \in 1..Len(samples) :
                  /\ { samples[j].reads[i].ch : i \in 1..Len(samples[j].reads) }
                        = MaskChannels(mask)
                  /\ \A i \in 1..Len(samples[j].reads) :
                        samples[j].reads[i].pos >= width
                  /\ samples[j].end_pos = chunk_num_bytes

(***************************************************************************)
(* Fixed-size exchanges (Spec)                                             *)
(***************************************************************************)

\* C20: a fixed-size read that returns another number of bytes than the
\* structure has ends in an error: a sensor answer that is not 48 bytes long
\* fails the identification at that speed; an identity answer that is not 3
\* bytes long, or a config answer that has not the size of the selected
\* layout (26 for a firmware below 6, 34 otherwise), raises ValueError, and
\* then nothing is decoded from it, cal_data keeps its initial offsets and
\* no stream is started.
C20_ShortReadIsError ==
    /\ (last.valid /\ last.asked_sensors /\ Len(last.sensors) # 48) =>
          /\ ~last.ok
          /\ ~attempts[Len(attempts)].ok
          /\ last.baud = attempts[Len(attempts)].baud
    /\ (cal_read.valid /\ Len(cal_read.id) # 3) =>
          /\ exc = "ValueError"
          /\ pc = "exit"
          /\ id_struct = Unset
          /\ ~cal_read.asked_config
          /\ config_struct = "none"
          /\ cal_data = InitialCalData
          /\ ~StartSent
    /\ (cal_read.valid /\ cal_read.asked_config) =>
          /\ id_struct.bound
          /\ cal_read.size = (IF id_struct.Firmware < 6 THEN 26 ELSE 34)
          /\ Len(cal_read.config) # cal_read.size =>
                /\ exc = "ValueError"
                /\ pc = "exit"
                /\ config_struct = "none"
                /\ cal_data = InitialCalData
                /\ ~StartSent

\* The device reported firmware 6 and sent 26 bytes where the 34 of the
\* extended layout were asked for.
C20_Witness ==
    /\ cal_read.valid
    /\ cal_read.asked_config
    /\ cal_read.size = 34
    /\ Len(cal_read.config) = 26
    /\ exc = "ValueError"

(***************************************************************************)
(* The failure reports (Spec)                                              *)
(***************************************************************************)

UnableReports == SelectSeq(reports, LAMBDA r : r.kind = "unable")

FailedAttempts == SelectSeq(attempts, LAMBDA a : ~a.ok)

\* C21: every speed at which identification failed has its own report, made
\* in the step that found the failure and so before the next speed is set
\* or primed: the reports of failure are, in order, the speeds of the failed
\* attempts; the report that no speed works comes last, only once, and only
\* after a report for each supported speed.
C21_ReportPerFailedSpeed ==
    /\ Len(UnableReports) = Len(FailedAttempts)
    /\ \A i \in 1..Len(FailedAttempts) :
          /\ UnableReports[i].baud = FailedAttempts[i].baud
          /\ attempts[i] = FailedAttempts[i]
    /\ \A k \in 1..Len(reports) :
          reports[k].kind = "none" =>
              /\ k = Len(reports)
              /\ \A n \in 1..Len(supported_baudrates) :
                    \E j \in 1..(k - 1) :
                        /\ reports[j].kind = "unable"
                        /\ reports[j].baud = supported_baudrates[n]
              /\ Len(UnableReports) = Len(supported_baudrates)
    /\ (pc = "exit" /\ exc = "SystemExit") =>
          /\ reports # << >>
          /\ reports[Len(reports)].kind = "none"

\* No speed worked: six reports of failure, then the final one.
C21_Witness ==
    /\ pc = "exit"
    /\ exc = "SystemExit"
    /\ Len(UnableReports) = 6
    /\ reports[Len(reports)].kind = "none"

(***************************************************************************)
(* The device timestamp (SpecSession)                                      *)
(***************************************************************************)

\* the unsigned number whose bytes are bs, least significant byte first
RECURSIVE LittleEndian(_)
LittleEndian(bs) ==
    IF bs = << >> THEN 0 ELSE Head(bs) + 256 * LittleEndian(Tail(bs))

\* C22: the device timestamp of a frame is the little-endian unsigned number
\* of its first timestamp bytes and of no other byte: the first 4 in the
\* logger's decode (Full), the first 2 in continuous_data_rx_single (Short),
\* none (0) in continuous_data_rx; it is divided by 3,000,000, so 3,000,000
\* ticks are exactly 1 second.
C22_TimestampLittleEndian ==
    /\ (pc = "decoded" /\ decoded.exc = "none") =>
          /\ decoded.ticks = LittleEndian(SubSeq(rx_buffer, 1, 4))
          /\ decoded.clock = 3000000
          /\ \A i \in 1..Len(decoded.reads) : decoded.reads[i].pos >= 4
          /\ LittleEndian(SubSeq(rx_buffer, 1, 4)) = 3000000 =>
                decoded.ticks = 1 * decoded.clock
    /\ \A j \in 1..Len(samples) :
          /\ fn = "single" =>
                /\ samples[j].ticks = LittleEndian(SubSeq(frames[j], 1, 2))
                /\ samples[j].clock = 3000000
                /\ \A i \in 1..Len(samples[j].reads) : samples[j].reads[i].pos >= 2
          /\ fn = "rx" => samples[j].ticks = 0

\* A frame whose first 4 bytes are 0xC0 0xC6 0x2D 0x00 decoded: 3,000,000
\* ticks.
C22_Witness ==
    /\ pc = "decoded"
    /\ decoded.exc = "none"
    /\ SubSeq(rx_buffer, 1, 4) = << 192, 198, 45, 0 >>
    /\ decoded.ticks = 3000000

(***************************************************************************)
(* The end of the probing (SpecLive)                                       *)
(***************************************************************************)

\* a speed was selected, or the script ended: with no speed working, in the
\* first attempt with the NameError of a name that is not bound, or before
\* its first statement with the SyntaxError of line 184
ProbingEnded ==
    \/ device_response
    \/ pc = "exit" /\ exc \in { "SystemExit", "NameError", "SyntaxError" }

\* C23: the probing always ends: every attempt is at a supported speed, no
\* speed is attempted or primed twice, so there are never more attempts than
\* supported speeds, and whatever the device answers and whichever names are
\* bound the script comes to have selected a speed or to have ended in
\* failure.
C23_ProbingTerminates ==
    /\ [](/\ Len(attempts) <= Len(supported_baudrates)
          /\ \A i \in 1..Len(attempts) :
                \E n \in 1..Len(supported_baudrates) :
                    attempts[i].baud = supported_baudrates[n]
          /\ \A i, j \in 1..Len(attempts) :
                attempts[i].baud = attempts[j].baud => i = j
          /\ Cardinality(WelcomePlaces) <= Len(supported_baudrates)
          /\ (Len(attempts) = Len(supported_baudrates) /\ pc # "after_for") =>
                ProbingEnded \/ pc = "for")
    /\ <>ProbingEnded

\* The last of the six speeds was attempted, and it was the one that worked.
C23_Witness ==
    /\ Len(attempts) = 6
    /\ attempts[6].ok
    /\ device_response

(***************************************************************************)
(* The calibration data over a whole session (SpecSession)                 *)
(***************************************************************************)

\* C14: cal_data is written only by read_calibration, in the one step that
\* has decoded the identity and then decodes the config structure; once
\* loaded it is never written again, and no step of a receive loop or of
\* the decode changes it.
C14_CalDataWrittenOnce ==
    [][ /\ cal_data' # cal_data =>
            /\ pc = "read_calibration"
            /\ config_struct = "none"
            /\ id_struct'.bound
            /\ config_struct' # "none"
            /\ cal_read'.valid
            /\ cal_data' = OffsetsOf(config_struct', cal_read'.config)
        /\ config_struct # "none" =>
            /\ config_struct' = config_struct
            /\ cal_data' = cal_data
        /\ pc \in { "continuous_data_rx", "rx_read", "rx_chunks", "decode" } =>
            cal_data' = cal_data ]_vars

\* The offsets were loaded from the device and continuous_data_rx has run
\* after that.
C14_Witness ==
    /\ config_struct # "none"
    /\ cal_data # InitialCalData
    /\ StartSent

(***************************************************************************)
(* Cancellation (SpecRxCancel)                                             *)
(***************************************************************************)

InRxLoop == pc \in { "rx_read", "rx_chunks" }

\* C11: once the cancellation signal is raised while the receive loop runs,
\* the loop observes it between two reads, so no turn of the loop goes back
\* to the read with the signal raised, and the loop eventually exits, whether
\* or not further bytes arrive.
C11_CancelExits ==
    /\ [][ (cancel /\ pc = "rx_chunks") => pc' # "rx_read" ]_vars
    /\ (cancel /\ InRxLoop) ~> ~InRxLoop


(***************************************************************************)
(* The conversion of one raw word (SpecConvert)                            *)
(***************************************************************************)

\* the 12-bit two's-complement value of a code in 0..0xFFF
SignExtend12(code) == IF code >= 2048 THEN code - 4096 ELSE code

\* C12: for every stored offset o in -128..127 and every raw word w the code
\* that is scaled is signExtend12(w >> 4) + o: a negative offset contributes
\* its own value, once.
C12_OffsetAddedOnce ==
    pc = "converted" =>
        /\ decoded.code = SignExtend12(decoded.word \div 16) + cal_data[1]
        /\ decoded.value = decoded.code * VOLT_SCALE

\* C13: int16_from_adc is defined for the code of every 16-bit word: the code
\* itself when bit 11 is clear, the code minus 0x1000 when it is set, so a
\* value in -2048..2047, 2047 for 0x7FF and -2048 for 0x800.
C13_SignExtend12 ==
    pc = "converted" =>
        LET code == decoded.word \div 16
        IN  /\ code \in 0..4095
            /\ decoded.adc = (IF (code \div 2048) % 2 = 0 THEN code ELSE code - 4096)
            /\ decoded.adc \in -2048..2047
            /\ code = 2047 => decoded.adc = 2047
            /\ code = 2048 => decoded.adc = -2048

\* The word 0x8000 (code 0x800) converted to -2048.
C13_Witness ==
    /\ pc = "converted"
    /\ decoded.word = 32768
    /\ decoded.adc = -2048

====
